---- MODULE Spec2Model ----
(***************************************************************************)
(* Model of package me_geolocate (src/me_geolocate.go): the lookup         *)
(* pipeline GetGeoData = CheckOctets, isLocal, isNonRoutable,              *)
(* checkRedisCache, obtainGeoDat, add2RedisCache, over a Redis cache keyed *)
(* by IP string and a remote JSON service.                                 *)
(*                                                                         *)
(* Strings that the code splits or prefix-matches on "." are modelled as   *)
(* the sequence of their dot-separated parts: "8.8.8.8" is                 *)
(* <<"8","8","8","8">>.  A prefix literal that ends in a dot, such as      *)
(* "192.168.106.", is the sequence of its parts <<"192","168","106">>, and *)
(* a string has that prefix iff it begins with those parts and has at      *)
(* least one more part.  A formatted message is the sequence of its        *)
(* pieces.                                                                 *)
(***************************************************************************)
EXTENDS Naturals, Sequences, FiniteSets, TLC

VARIABLES
    redis_addr,   \* package variable redis_addr (REDIS_CONF at init time)
    cache,        \* the Redis store: key (IP string) -> stored JSON document
    ncalls,       \* number of GetGeoData calls made so far
    last,         \* what the most recent GetGeoData call did and returned
    prev,         \* the same for the call before it
    expired,      \* an entry's TTL ran out since the most recent call
    proc,         \* the GetGeoData calls in progress, one per goroutine
    log,          \* the cache and service operations of those calls, in order
    rt,           \* a record on its way through add2RedisCache, checkRedisCache
    ping          \* what redisClient.Ping answered in init ("": init has not run)

vars == <<redis_addr, cache, ncalls, last, prev, expired, proc, log, rt, ping>>

(***************************************************************************)
(* Bounds of the model.                                                    *)
(***************************************************************************)
MaxCalls == 1

MaxSeq == 2

(***************************************************************************)
(* strings.HasPrefix(s, p) for a prefix literal p that ends in a dot.      *)
(***************************************************************************)
HasPrefix(s, p) ==
    /\ Len(s) > Len(p)
    /\ SubSeq(s, 1, Len(p)) = p

LocalPrefix == <<"192", "168", "106">>

SecondOctets ==
    {"16", "17", "18", "19", "20", "21", "22", "23",
     "24", "25", "26", "27", "28", "29", "30", "31"}

\* the slice with its last element missing
nonRoutable_Short ==
    {<<"192", "168">>, <<"10">>} \cup {<<"172", o>> : o \in SecondOctets \ {"31"}}

\* the slice nonRoutable of isNonRoutable
nonRoutable ==
    {<<"192", "168">>, <<"10">>} \cup {<<"172", o>> : o \in SecondOctets}

(***************************************************************************)
(* ColorForIP: the classification LogGeo reports for a record, as the      *)
(* colour of the address.                                                  *)
(***************************************************************************)
Red == "\\033[31m"

Green == "\\033[32m"

Blue == "\\033[34m"

BrightMagenta == "\\033[95m"

ColorForIP(geo) ==
    CASE HasPrefix(geo.IP, LocalPrefix) -> Blue
      [] ~HasPrefix(geo.IP, LocalPrefix) /\ ~geo.Routable -> BrightMagenta
      [] ~HasPrefix(geo.IP, LocalPrefix) /\ geo.Routable /\ geo.CacheHit -> Green
      [] OTHER -> Red

(***************************************************************************)
(* type GeoIPData and the literal GetGeoData starts from.                  *)
(***************************************************************************)
NoError == <<>>

NewGeoIPData(ip) ==
    [IP |-> ip, ISP |-> "-----", Org |-> "", Hostname |-> "-----",
     City |-> "-----", CountryCode |-> "--", CountryName |-> "-----",
     Success |-> FALSE, Error |-> NoError, Located |-> FALSE,
     Routable |-> FALSE, Block |-> FALSE, CacheHit |-> FALSE]

Fields ==
    {"IP", "ISP", "Org", "Hostname", "City", "CountryCode", "CountryName",
     "Success", "Error", "Located", "Routable", "Block", "CacheHit"}

(***************************************************************************)
(* encoding/json as the code uses it.  A JSON document is the set of       *)
(* struct fields it has a well-typed member for (has), their values (val), *)
(* and what is wrong with it (bad): "syntax" for text that is not JSON,    *)
(* "type" for JSON with a member of the wrong type.  json.Marshal writes   *)
(* every field of the struct.  json.Unmarshal rejects text that is not     *)
(* JSON without touching the target; otherwise it stores every member it   *)
(* can, skips a member of the wrong type, and reports that one as an error *)
(* after the rest has been stored.                                         *)
(*                                                                         *)
(* A Go string is any bytes; a JSON string is valid UTF-8.  json.Marshal   *)
(* writes a string coerced to valid UTF-8: every byte that is not part of  *)
(* a UTF-8 encoding is written as U+FFFD.  InvalidUTF8 stands for a piece  *)
(* of a string that holds such a byte.                                     *)
(***************************************************************************)
InvalidUTF8 == "\\xff"

ReplacementChar == "\\ufffd"

ToValidUTF8(s) == IF s = InvalidUTF8 THEN ReplacementChar ELSE s

Coerced(g) ==
    [g EXCEPT !.IP = [i \in DOMAIN g.IP |-> ToValidUTF8(g.IP[i])],
              !.ISP = ToValidUTF8(g.ISP), !.Org = ToValidUTF8(g.Org),
              !.Hostname = ToValidUTF8(g.Hostname),
              !.City = ToValidUTF8(g.City),
              !.CountryCode = ToValidUTF8(g.CountryCode),
              !.CountryName = ToValidUTF8(g.CountryName),
              !.Error = [i \in DOMAIN g.Error |-> ToValidUTF8(g.Error[i])]]

\* a struct field left out of the stored document
Marshal_NoOrg(g) ==
    [bad |-> "none", has |-> Fields \ {"Org"}, val |-> Coerced(g)]

Marshal(g) == [bad |-> "none", has |-> Fields, val |-> Coerced(g)]

Pick(d, g, f) == IF f \in d.has THEN d.val[f] ELSE g[f]

\* Overlay with the member "error" not decoded
Overlay_NoError(d, g) ==
    [IP |-> Pick(d, g, "IP"), ISP |-> Pick(d, g, "ISP"),
     Org |-> Pick(d, g, "Org"), Hostname |-> Pick(d, g, "Hostname"),
     City |-> Pick(d, g, "City"), CountryCode |-> Pick(d, g, "CountryCode"),
     CountryName |-> Pick(d, g, "CountryName"),
     Success |-> Pick(d, g, "Success"), Error |-> g.Error,
     Located |-> Pick(d, g, "Located"), Routable |-> Pick(d, g, "Routable"),
     Block |-> Pick(d, g, "Block"), CacheHit |-> Pick(d, g, "CacheHit")]

Overlay(d, g) ==
    [IP |-> Pick(d, g, "IP"), ISP |-> Pick(d, g, "ISP"),
     Org |-> Pick(d, g, "Org"), Hostname |-> Pick(d, g, "Hostname"),
     City |-> Pick(d, g, "City"), CountryCode |-> Pick(d, g, "CountryCode"),
     CountryName |-> Pick(d, g, "CountryName"),
     Success |-> Pick(d, g, "Success"), Error |-> Pick(d, g, "Error"),
     Located |-> Pick(d, g, "Located"), Routable |-> Pick(d, g, "Routable"),
     Block |-> Pick(d, g, "Block"), CacheHit |-> Pick(d, g, "CacheHit")]

Unmarshal(d, g) ==
    IF d.bad = "syntax"
    THEN [err |-> TRUE, g |-> g]
    ELSE [err |-> d.bad = "type", g |-> Overlay(d, g)]

(***************************************************************************)
(* CheckOctets: a string of exactly three dot-separated parts gets the     *)
(* part o appended.                                                        *)
(***************************************************************************)
CheckOctets(g, o) ==
    IF Len(g.IP) = 3 THEN [g EXCEPT !.IP = g.IP \o <<o>>] ELSE g

(***************************************************************************)
(* isLocal and isNonRoutable: the returned bool (ret) and the record as    *)
(* the method leaves it (g).                                               *)
(***************************************************************************)
\* isLocal without its assignment of CountryName
isLocal_NoCountryName(g) ==
    IF HasPrefix(g.IP, LocalPrefix)
    THEN [ret |-> TRUE,
          g |-> [g EXCEPT !.Located = TRUE, !.Routable = FALSE,
                          !.ISP = "LaughingJ", !.CountryCode = "US",
                          !.City = "Lewisville", !.CacheHit = FALSE]]
    ELSE [ret |-> FALSE, g |-> g]

isLocal(g) ==
    IF HasPrefix(g.IP, LocalPrefix)
    THEN [ret |-> TRUE,
          g |-> [g EXCEPT !.Located = TRUE, !.Routable = FALSE,
                          !.ISP = "LaughingJ", !.CountryCode = "US",
                          !.City = "Lewisville",
                          !.CountryName = "United States",
                          !.CacheHit = FALSE]]
    ELSE [ret |-> FALSE, g |-> g]

InvalidPublic == "Invalid public IPv4 or IPv6 address "

\* isNonRoutable with the message of the test: the address is not appended
isNonRoutable_BareMessage(g) ==
    IF \E v \in nonRoutable : HasPrefix(g.IP, v)
    THEN [ret |-> TRUE,
          g |-> [g EXCEPT !.Routable = FALSE, !.Located = FALSE,
                          !.Success = FALSE, !.CacheHit = FALSE,
                          !.Error = <<InvalidPublic>>]]
    ELSE [ret |-> FALSE, g |-> [g EXCEPT !.Routable = TRUE]]

isNonRoutable(g) ==
    IF \E v \in nonRoutable : HasPrefix(g.IP, v)
    THEN [ret |-> TRUE,
          g |-> [g EXCEPT !.Routable = FALSE, !.Located = FALSE,
                          !.Success = FALSE, !.CacheHit = FALSE,
                          !.Error = <<InvalidPublic>> \o g.IP]]
    ELSE [ret |-> FALSE, g |-> [g EXCEPT !.Routable = TRUE]]

(***************************************************************************)
(* checkRedisCache(redisClient, ip) on the store `store`; getErr says that *)
(* redisClient.Get fails with an error other than redis.Nil.               *)
(***************************************************************************)
checkRedisCache(g, store, ip, getErr) ==
    IF getErr \/ ip \notin DOMAIN store
    THEN [ret |-> FALSE, g |-> [g EXCEPT !.Located = FALSE, !.CacheHit = FALSE]]
    ELSE LET u == Unmarshal(store[ip], g)
         IN  IF u.err
             THEN [ret |-> FALSE,
                   g |-> [u.g EXCEPT !.Located = FALSE, !.CacheHit = FALSE]]
             ELSE [ret |-> TRUE,
                   g |-> [u.g EXCEPT !.Located = TRUE, !.CacheHit = TRUE]]

(***************************************************************************)
(* redisClient.Set(key, value): the whole value under key is replaced.     *)
(***************************************************************************)
\* SETNX in place of SET: an entry that is there is kept
RedisSet_IfAbsent(store, key, value) ==
    [k \in DOMAIN store \cup {key} |->
        IF k \in DOMAIN store THEN store[k] ELSE value]

RedisSet(store, key, value) ==
    [k \in DOMAIN store \cup {key} |-> IF k = key THEN value ELSE store[k]]

(***************************************************************************)
(* add2RedisCache on the store `store`; setOk says that redisClient.Set    *)
(* succeeds.  The key is the record's own IP field.                        *)
(***************************************************************************)
\* add2RedisCache without its call of redisClient.Set
add2RedisCache_NoSet(g, store, setOk) ==
    LET g1 == [g EXCEPT !.CacheHit = FALSE]
    IN  [g |-> g1, key |-> g1.IP, store |-> store]

add2RedisCache(g, store, setOk) ==
    LET g1 == [g EXCEPT !.CacheHit = FALSE]
    IN  [g |-> g1,
         key |-> g1.IP,
         store |-> IF setOk THEN RedisSet(store, g1.IP, Marshal(g1)) ELSE store]

(***************************************************************************)
(* The remote service.  An answer to GET https://json.geoiplookup.io/<ip>  *)
(* is a transport failure (http.DefaultClient.Do returns an error), a      *)
(* response that announces Content-Encoding gzip without a gzip body       *)
(* ("badgzip"), or a response with a status line, a body and possibly an   *)
(* error while the body is read.  The bodies the service is taken to send  *)
(* for the address ip it was asked about:                                  *)
(*   "good"     the full answer for ip                                     *)
(*   "otherip"  the full answer, whose "ip" member names another address   *)
(*   "nocc"     an answer without country_code                             *)
(*   "error"    {"success": false, "error": ...}                           *)
(*   "flags"    an answer that also carries routable, located, cache_hit   *)
(*   "syntax"   text that is not JSON                                      *)
(*   "type"     JSON with "isp" set and a wrongly typed country_code       *)
(***************************************************************************)
Google == <<"8", "8", "8", "8">>

Completed == <<"8", "8", "8", "112">>

OtherIP(ip) == IF ip = Google THEN Completed ELSE Google

Answer(ip) ==
    [NewGeoIPData(ip) EXCEPT !.ISP = "Google LLC", !.Org = "Google LLC",
                             !.Hostname = "dns.google",
                             !.City = "Mountain View", !.CountryCode = "US",
                             !.CountryName = "United States",
                             !.Success = TRUE]

AnswerFields ==
    {"IP", "ISP", "Org", "Hostname", "City", "CountryCode", "CountryName",
     "Success", "Error"}

RemoteBody(t, ip) ==
    CASE t = "good" ->
           [bad |-> "none", has |-> AnswerFields, val |-> Answer(ip)]
      [] t = "otherip" ->
           [bad |-> "none", has |-> AnswerFields, val |-> Answer(OtherIP(ip))]
      [] t = "nocc" ->
           [bad |-> "none", has |-> {"IP", "ISP", "Success"},
            val |-> Answer(ip)]
      [] t = "error" ->
           [bad |-> "none", has |-> {"Success", "Error"},
            val |-> [NewGeoIPData(ip) EXCEPT !.Error = <<"quota exceeded">>]]
      [] t = "flags" ->
           [bad |-> "none",
            has |-> {"IP", "CountryCode", "Located", "Routable", "CacheHit"},
            val |-> [Answer(ip) EXCEPT !.CacheHit = TRUE]]
      [] t = "type" ->
           [bad |-> "type", has |-> {"ISP"}, val |-> Answer(ip)]
      [] OTHER ->
           [bad |-> "syntax", has |-> {}, val |-> NewGeoIPData(ip)]

OK200 == "200 OK"

NotFound404 == "404 Not Found"

Response(status, body, readErr) ==
    [kind |-> "response", status |-> status, body |-> body,
     readErr |-> readErr]

TransportFailure ==
    [kind |-> "transport", status |-> "", body |-> "", readErr |-> FALSE]

BadGzip ==
    [kind |-> "badgzip", status |-> OK200, body |-> "", readErr |-> FALSE]

NoRemote == [kind |-> "", status |-> "", body |-> "", readErr |-> FALSE]

Remotes ==
    {TransportFailure, BadGzip}
    \cup {Response(OK200, b, FALSE) :
            b \in {"good", "otherip", "nocc", "error", "flags", "syntax", "type"}}
    \cup {Response(NotFound404, b, FALSE) : b \in {"good", "error"}}
    \cup {Response(OK200, "good", TRUE)}

(***************************************************************************)
(* obtainGeoDat against the answer r: panic says that the call does not    *)
(* return (a nil *gzip.Reader is read), g is the record as it leaves it.   *)
(* io.ReadAll that fails returns the bytes read so far, a cut-off JSON     *)
(* text, which is not JSON.                                                *)
(***************************************************************************)
InvalidResponse == "GetGeoData received invalid response for IP: "

ReadFailed == "Reading response body failed - "

obtainGeoDat(g, r) ==
    IF r.kind = "transport"
    THEN [panic |-> FALSE, g |-> g]
    ELSE LET g1 == IF r.status # OK200
                   THEN [g EXCEPT !.Error = <<InvalidResponse>> \o g.IP
                                             \o <<" - ", r.status>>]
                   ELSE g
             g2 == IF r.readErr
                   THEN [g1 EXCEPT !.Error = <<ReadFailed, "unexpected EOF">>]
                   ELSE g1
             byt == IF r.readErr THEN RemoteBody("syntax", g.IP)
                                 ELSE RemoteBody(r.body, g.IP)
             g3 == Unmarshal(byt, g2).g
         IN  IF r.kind = "badgzip"
             THEN [panic |-> TRUE, g |-> g1]
             ELSE [panic |-> FALSE, g |-> [g3 EXCEPT !.Located = TRUE]]

(***************************************************************************)
(* GetGeoData(ip) run against the store `store` with redis_addr = addr.    *)
(* getErr, r and setOk are what the cache read, the remote service and the *)
(* cache write answer if the call gets to them.  The result records what   *)
(* the call did: returned (FALSE: it panicked), geo (the record returned), *)
(* reads/remote/writes (how many cache reads, remote requests and cache    *)
(* writes it made), readKey, req and writeKey (the key read, the address   *)
(* asked of the service, the key written), found and foundCC (what         *)
(* checkRedisCache returned and the CountryCode it left in the record),    *)
(* steps (the methods and collaborators the call went through, in order),  *)
(* and the store the call leaves.                                          *)
(***************************************************************************)
NoKey == <<>>

Trace(ip, store) ==
    [input |-> ip, returned |-> TRUE, geo |-> NewGeoIPData(ip),
     reads |-> 0, readKey |-> NoKey, getErr |-> FALSE,
     found |-> FALSE, foundCC |-> "",
     remote |-> 0, req |-> NoKey, resp |-> NoRemote,
     writes |-> 0, writeKey |-> NoKey, setOk |-> FALSE,
     steps |-> <<"CheckOctets", "isLocal">>,
     store |-> store]

\* the test without its check of the country code
UsableHit_Any(hit, g) == hit

\* the test with the hit negated
UsableHit_Negated(hit, g) == ~hit

\* the test `hit && (geo.CountryCode != "--")`
UsableHit(hit, g) == hit /\ g.CountryCode # "--"

\* GetGeoData calling obtainGeoDat once more when the request failed
GetGeoData_Retry(ip, addr, store, getErr, r, setOk) ==
    LET geo == CheckOctets(NewGeoIPData(ip), "112")
        loc == isLocal(geo)
        nr  == isNonRoutable(loc.g)
        chk == IF addr # ""
               THEN checkRedisCache(nr.g, store, ip, getErr)
               ELSE [ret |-> FALSE, g |-> nr.g]
        ob  == obtainGeoDat(chk.g, r)
        add == add2RedisCache(ob.g, store, setOk)
        n   == IF r.kind = "transport" THEN 2 ELSE 1
        t   == Trace(ip, store)
        t0  == [t EXCEPT !.steps = Append(t.steps, "isNonRoutable")]
        t1  == IF addr # ""
               THEN [t0 EXCEPT !.reads = 1, !.readKey = ip, !.getErr = getErr,
                               !.found = chk.ret,
                               !.foundCC = chk.g.CountryCode,
                               !.steps = Append(t0.steps, "checkRedisCache")]
               ELSE t0
        t2  == [t1 EXCEPT !.remote = n, !.req = chk.g.IP, !.resp = r,
                          !.steps = t1.steps \o [i \in 1..n |-> "obtainGeoDat"]]
    IN  IF loc.ret THEN [t EXCEPT !.geo = loc.g]
        ELSE IF nr.ret THEN [t0 EXCEPT !.geo = nr.g]
        ELSE IF addr # "" /\ UsableHit(chk.ret, chk.g)
             THEN [t1 EXCEPT !.geo = [chk.g EXCEPT !.CacheHit = TRUE]]
        ELSE IF ob.panic THEN [t2 EXCEPT !.returned = FALSE, !.geo = ob.g]
        ELSE [t2 EXCEPT !.geo = add.g, !.writes = 1, !.writeKey = add.key,
                        !.setOk = setOk, !.store = add.store,
                        !.steps = Append(t2.steps, "add2RedisCache")]

\* GetGeoData with the non-routable check ahead of the local check
GetGeoData_NonRoutableFirst(ip, addr, store, getErr, r, setOk) ==
    LET geo == CheckOctets(NewGeoIPData(ip), "112")
        nr  == isNonRoutable(geo)
        loc == isLocal(nr.g)
        chk == IF addr # ""
               THEN checkRedisCache(loc.g, store, ip, getErr)
               ELSE [ret |-> FALSE, g |-> loc.g]
        ob  == obtainGeoDat(chk.g, r)
        add == add2RedisCache(ob.g, store, setOk)
        t   == [Trace(ip, store) EXCEPT
                   !.steps = <<"CheckOctets", "isNonRoutable">>]
        t0  == [t EXCEPT !.steps = Append(t.steps, "isLocal")]
        t1  == IF addr # ""
               THEN [t0 EXCEPT !.reads = 1, !.readKey = ip, !.getErr = getErr,
                               !.found = chk.ret,
                               !.foundCC = chk.g.CountryCode,
                               !.steps = Append(t0.steps, "checkRedisCache")]
               ELSE t0
        t2  == [t1 EXCEPT !.remote = 1, !.req = chk.g.IP, !.resp = r,
                          !.steps = Append(t1.steps, "obtainGeoDat")]
    IN  IF nr.ret THEN [t EXCEPT !.geo = nr.g]
        ELSE IF loc.ret THEN [t0 EXCEPT !.geo = loc.g]
        ELSE IF addr # "" /\ UsableHit(chk.ret, chk.g)
             THEN [t1 EXCEPT !.geo = [chk.g EXCEPT !.CacheHit = TRUE]]
        ELSE IF ob.panic THEN [t2 EXCEPT !.returned = FALSE, !.geo = ob.g]
        ELSE [t2 EXCEPT !.geo = add.g, !.writes = 1, !.writeKey = add.key,
                        !.setOk = setOk, !.store = add.store,
                        !.steps = Append(t2.steps, "add2RedisCache")]

\* GetGeoData without the test of redis_addr around the cache read
GetGeoData_AlwaysRead(ip, addr, store, getErr, r, setOk) ==
    LET geo == CheckOctets(NewGeoIPData(ip), "112")
        loc == isLocal(geo)
        nr  == isNonRoutable(loc.g)
        chk == checkRedisCache(nr.g, store, ip, getErr)
        ob  == obtainGeoDat(chk.g, r)
        add == add2RedisCache(ob.g, store, setOk)
        t   == Trace(ip, store)
        t0  == [t EXCEPT !.steps = Append(t.steps, "isNonRoutable")]
        t1  == [t0 EXCEPT !.reads = 1, !.readKey = ip, !.getErr = getErr,
                          !.found = chk.ret,
                          !.foundCC = chk.g.CountryCode,
                          !.steps = Append(t0.steps, "checkRedisCache")]
        t2  == [t1 EXCEPT !.remote = 1, !.req = chk.g.IP, !.resp = r,
                          !.steps = Append(t1.steps, "obtainGeoDat")]
    IN  IF loc.ret THEN [t EXCEPT !.geo = loc.g]
        ELSE IF nr.ret THEN [t0 EXCEPT !.geo = nr.g]
        ELSE IF UsableHit(chk.ret, chk.g)
             THEN [t1 EXCEPT !.geo = [chk.g EXCEPT !.CacheHit = TRUE]]
        ELSE IF ob.panic THEN [t2 EXCEPT !.returned = FALSE, !.geo = ob.g]
        ELSE [t2 EXCEPT !.geo = add.g, !.writes = 1, !.writeKey = add.key,
                        !.setOk = setOk, !.store = add.store,
                        !.steps = Append(t2.steps, "add2RedisCache")]

GetGeoData(ip, addr, store, getErr, r, setOk) ==
    LET geo == CheckOctets(NewGeoIPData(ip), "112")
        loc == isLocal(geo)
        nr  == isNonRoutable(loc.g)
        chk == IF addr # ""
               THEN checkRedisCache(nr.g, store, ip, getErr)
               ELSE [ret |-> FALSE, g |-> nr.g]
        ob  == obtainGeoDat(chk.g, r)
        add == add2RedisCache(ob.g, store, setOk)
        t   == Trace(ip, store)
        t0  == [t EXCEPT !.steps = Append(t.steps, "isNonRoutable")]
        t1  == IF addr # ""
               THEN [t0 EXCEPT !.reads = 1, !.readKey = ip, !.getErr = getErr,
                               !.found = chk.ret,
                               !.foundCC = chk.g.CountryCode,
                               !.steps = Append(t0.steps, "checkRedisCache")]
               ELSE t0
        t2  == [t1 EXCEPT !.remote = 1, !.req = chk.g.IP, !.resp = r,
                          !.steps = Append(t1.steps, "obtainGeoDat")]
    IN  IF loc.ret THEN [t EXCEPT !.geo = loc.g]
        ELSE IF nr.ret THEN [t0 EXCEPT !.geo = nr.g]
        ELSE IF addr # "" /\ UsableHit(chk.ret, chk.g)
             THEN [t1 EXCEPT !.geo = [chk.g EXCEPT !.CacheHit = TRUE]]
        ELSE IF ob.panic THEN [t2 EXCEPT !.returned = FALSE, !.geo = ob.g]
        ELSE [t2 EXCEPT !.geo = add.g, !.writes = 1, !.writeKey = add.key,
                        !.setOk = setOk, !.store = add.store,
                        !.steps = Append(t2.steps, "add2RedisCache")]

(***************************************************************************)
(* The addresses looked up.                                                *)
(***************************************************************************)
Home == <<"192", "168", "106", "5">>

Private == <<"192", "168", "1", "1">>

Inputs ==
    {Google, <<"8", "8", "8">>, Completed,
     Home, <<"192", "168", "106">>,
     Private, <<"192", "168", "1">>,
     <<"10", "0", "0", "1">>}
    \cup {<<"172", o, "5", "5">> : o \in SecondOctets}

SeqInputs == {Google, <<"8", "8", "8">>, Completed, Home, Private}

SeqRemotes ==
    {TransportFailure}
    \cup {Response(OK200, b, FALSE) : b \in {"good", "otherip", "nocc"}}

(***************************************************************************)
(* What the store may hold when the package is initialised: nothing, or    *)
(* entries left by earlier runs and by other writers of the same Redis     *)
(* database.                                                               *)
(***************************************************************************)
Stored(ip) == Marshal([Answer(ip) EXCEPT !.Located = TRUE, !.Routable = TRUE])

Unresolved(ip) == Marshal([NewGeoIPData(ip) EXCEPT !.Routable = TRUE])

\* the entry GetGeoData itself leaves for ip when the service's answer
\* carried the members routable, located and cache_hit
Misflagged(ip) ==
    GetGeoData(ip, "", <<>>, FALSE, Response(OK200, "flags", FALSE), TRUE).store[ip]

InitialStores ==
    {<<>>,
     Google :> Stored(Google),
     Google :> RemoteBody("syntax", Google),
     Google :> RemoteBody("type", Google),
     Google :> Unresolved(Google),
     Google :> Misflagged(Google),
     (Home :> Stored(Home)) @@ (Private :> Stored(Private))}

(***************************************************************************)
(* The record kept of a call: what it did and returned (the result of      *)
(* GetGeoData without the store), whether the store it found was cold for  *)
(* its address (no entry under the string passed in nor under the          *)
(* completed address), and whether an entry had expired since the call     *)
(* before it.                                                              *)
(***************************************************************************)
Normalized(ip) == CheckOctets(NewGeoIPData(ip), "112").IP

Record(t, store, exp) ==
    [input |-> t.input, returned |-> t.returned, geo |-> t.geo,
     reads |-> t.reads, readKey |-> t.readKey, getErr |-> t.getErr,
     found |-> t.found, foundCC |-> t.foundCC,
     remote |-> t.remote, req |-> t.req, resp |-> t.resp,
     writes |-> t.writes, writeKey |-> t.writeKey, setOk |-> t.setOk,
     steps |-> t.steps,
     cold |-> {t.input, Normalized(t.input)} \cap DOMAIN store = {},
     afterExpiry |-> exp]

NoCall == Record(Trace(NoKey, <<>>), <<>>, FALSE)

(***************************************************************************)
(* Calls in progress.  GetGeoData has no state of its own but its local    *)
(* variable geo; goroutines that call it share the package variables and   *)
(* the Redis store only.  A call in progress is where it stands (pc), the  *)
(* string it was passed (input), its geo, and what it has met so far: the  *)
(* store as it was when it read the cache (seen), and the answers of the   *)
(* cache and the service (getErr, resp, setOk).                            *)
(***************************************************************************)
Procs == {"g1", "g2"}

Idle ==
    [pc |-> "idle", input |-> NoKey, geo |-> NewGeoIPData(NoKey),
     seen |-> <<>>, getErr |-> FALSE, resp |-> NoRemote, setOk |-> FALSE]

NoProcs == [p \in Procs |-> Idle]

(***************************************************************************)
(* A record stored with add2RedisCache and read back with checkRedisCache: *)
(* the record (rec), how far it got (stage), the key it was stored under,  *)
(* the record checkRedisCache was called on (fresh), what checkRedisCache  *)
(* returned (hit) and the record as it left it (out).                      *)
(***************************************************************************)
ZeroGeoIPData ==
    [IP |-> <<>>, ISP |-> "", Org |-> "", Hostname |-> "", City |-> "",
     CountryCode |-> "", CountryName |-> "", Success |-> FALSE,
     Error |-> NoError, Located |-> FALSE, Routable |-> FALSE,
     Block |-> FALSE, CacheHit |-> FALSE]

RoundTrip(stage, rec) ==
    [stage |-> stage, rec |-> rec, key |-> NoKey, fresh |-> ZeroGeoIPData,
     hit |-> FALSE, out |-> ZeroGeoIPData]

NoRoundTrip == RoundTrip("none", ZeroGeoIPData)

Init ==
    /\ redis_addr \in {"", "127.0.0.1:6379"}
    /\ cache \in InitialStores
    /\ ncalls = 0
    /\ last = NoCall
    /\ prev = NoCall
    /\ expired = FALSE
    /\ proc = NoProcs
    /\ log = <<>>
    /\ rt = NoRoundTrip
    /\ ping = "PONG"

(***************************************************************************)
(* init keeps nothing of the answer to its Ping: pong and err are locals   *)
(* that it logs.  The variable ping keeps that answer for the properties   *)
(* of the startup (SpecStart below); no call reads it, and the other       *)
(* specifications start after an init whose Ping was answered.             *)
(***************************************************************************)

(***************************************************************************)
(* One call of GetGeoData, start to return, for an address of `inputs`,    *)
(* any answer of the cache and an answer of the remote service from        *)
(* `remotes`.                                                              *)
(***************************************************************************)
Outcomes(ip, remotes) ==
    {GetGeoData(ip, redis_addr, cache, getErr, r, setOk) :
        getErr \in BOOLEAN, r \in remotes, setOk \in BOOLEAN}

CallOf(inputs, remotes, max) ==
    /\ ncalls < max
    /\ \E ip \in inputs :
         \E t \in Outcomes(ip, remotes) :
            /\ cache' = t.store
            /\ last' = Record(t, cache, expired)
            /\ prev' = last
    /\ ncalls' = ncalls + 1
    /\ expired' = FALSE
    /\ UNCHANGED <<redis_addr, proc, log, rt, ping>>

Call == CallOf(Inputs, Remotes, MaxCalls)

(***************************************************************************)
(* The TTL of an entry runs out: Redis drops the key.                      *)
(***************************************************************************)
Expire ==
    /\ \E k \in DOMAIN cache :
         cache' = [j \in DOMAIN cache \ {k} |-> cache[j]]
    /\ expired' = TRUE
    /\ UNCHANGED <<redis_addr, ncalls, last, prev, proc, log, rt, ping>>

Next == Call \/ Expire

\* one call, of any address, with any answer of the cache and the service
Spec == Init /\ [][Next]_vars

(***************************************************************************)
(* Sequences of calls: the addresses that share a cache entry, the answers *)
(* of the service that decide what is cached.                              *)
(***************************************************************************)
InitSeq ==
    /\ redis_addr \in {"", "127.0.0.1:6379"}
    /\ cache \in {<<>>, Google :> Stored(Google)}
    /\ ncalls = 0
    /\ last = NoCall
    /\ prev = NoCall
    /\ expired = FALSE
    /\ proc = NoProcs
    /\ log = <<>>
    /\ rt = NoRoundTrip
    /\ ping = "PONG"

CallSeq == CallOf(SeqInputs, SeqRemotes, MaxSeq)

NextSeq == CallSeq \/ Expire

SpecSeq == InitSeq /\ [][NextSeq]_vars

(***************************************************************************)
(* Concurrent calls.  Each goroutine runs GetGeoData on its own geo; the   *)
(* calls meet at the store only, where redisClient.Get and redisClient.Set *)
(* are each one atomic Redis command.  A call is split where it touches    *)
(* the store or the service:                                               *)
(*   Start    lines 141-163: the literal, CheckOctets, isLocal,            *)
(*            isNonRoutable                                                *)
(*   Read     lines 165-172: checkRedisCache and the test of the hit       *)
(*   Resolve  line 174: obtainGeoDat                                       *)
(*   Write    lines 175-177: add2RedisCache and the return                 *)
(* A call that panics in obtainGeoDat ends there ("panic"); the caller may *)
(* have recovered, so the other call goes on.                              *)
(***************************************************************************)
ConcInputs == {Google, <<"8", "8", "8">>, Home}

ConcRemotes ==
    {TransportFailure, BadGzip}
    \cup {Response(OK200, b, FALSE) : b \in {"good", "nocc"}}

Event(p, op, key, ok) == [proc |-> p, op |-> op, key |-> key, ok |-> ok]

Start(p) ==
    /\ proc[p].pc = "idle"
    /\ \E ip \in ConcInputs :
         LET geo == CheckOctets(NewGeoIPData(ip), "112")
             loc == isLocal(geo)
             nr  == isNonRoutable(loc.g)
         IN  proc' = [proc EXCEPT ![p] =
                 IF loc.ret
                 THEN [@ EXCEPT !.pc = "done", !.input = ip, !.geo = loc.g]
                 ELSE IF nr.ret
                 THEN [@ EXCEPT !.pc = "done", !.input = ip, !.geo = nr.g]
                 ELSE [@ EXCEPT !.pc = IF redis_addr # "" THEN "read"
                                                          ELSE "resolve",
                                !.input = ip, !.geo = nr.g]]
    /\ UNCHANGED <<redis_addr, cache, ncalls, last, prev, expired, log, rt, ping>>

Read(p) ==
    /\ proc[p].pc = "read"
    /\ \E getErr \in BOOLEAN :
         LET chk == checkRedisCache(proc[p].geo, cache, proc[p].input, getErr)
         IN  /\ proc' = [proc EXCEPT ![p] =
                   IF UsableHit(chk.ret, chk.g)
                   THEN [@ EXCEPT !.pc = "done", !.seen = cache,
                                  !.getErr = getErr,
                                  !.geo = [chk.g EXCEPT !.CacheHit = TRUE]]
                   ELSE [@ EXCEPT !.pc = "resolve", !.seen = cache,
                                  !.getErr = getErr, !.geo = chk.g]]
             /\ log' = Append(log, Event(p, "get", proc[p].input, chk.ret))
    /\ UNCHANGED <<redis_addr, cache, ncalls, last, prev, expired, rt, ping>>

Resolve(p) ==
    /\ proc[p].pc = "resolve"
    /\ \E r \in ConcRemotes :
         LET ob == obtainGeoDat(proc[p].geo, r)
         IN  /\ proc' = [proc EXCEPT ![p] =
                   [@ EXCEPT !.pc = IF ob.panic THEN "panic" ELSE "write",
                             !.resp = r, !.geo = ob.g]]
             /\ log' = Append(log, Event(p, "request", proc[p].geo.IP,
                                           r.kind = "response"))
    /\ UNCHANGED <<redis_addr, cache, ncalls, last, prev, expired, rt, ping>>

Write(p) ==
    /\ proc[p].pc = "write"
    /\ \E setOk \in BOOLEAN :
         LET add == add2RedisCache(proc[p].geo, cache, setOk)
         IN  /\ cache' = add.store
             /\ proc' = [proc EXCEPT ![p] =
                   [@ EXCEPT !.pc = "done", !.setOk = setOk, !.geo = add.g]]
             /\ log' = Append(log, Event(p, "set", add.key, setOk))
    /\ UNCHANGED <<redis_addr, ncalls, last, prev, expired, rt, ping>>

NextConc ==
    \/ \E p \in Procs : Start(p) \/ Read(p) \/ Resolve(p) \/ Write(p)
    \/ Expire

\* two goroutines, one call each, in any interleaving
SpecConc == InitSeq /\ [][NextConc]_vars

(***************************************************************************)
(* The round trip through the cache: any record, stored by add2RedisCache  *)
(* and read back by checkRedisCache under the key it was stored under,     *)
(* into a zero record, a record with the IP set, or the record GetGeoData  *)
(* starts from.                                                            *)
(***************************************************************************)
Garbled == <<"8", "8", "8", InvalidUTF8>>

RTBase(ip) ==
    {NewGeoIPData(ip), Answer(ip),
     [Answer(ip) EXCEPT !.Hostname = InvalidUTF8],
     isLocal(NewGeoIPData(ip)).g,
     isNonRoutable(NewGeoIPData(ip)).g,
     obtainGeoDat(NewGeoIPData(ip), Response(NotFound404, "syntax", FALSE)).g,
     obtainGeoDat(NewGeoIPData(ip), Response(OK200, "error", FALSE)).g,
     obtainGeoDat(NewGeoIPData(ip), Response(InvalidUTF8, "nocc", FALSE)).g}

RTRecords ==
    {[r EXCEPT !.Success = f[1], !.Block = f[2], !.CacheHit = f[3]] :
        r \in UNION {RTBase(ip) : ip \in {Google, Home, Private, Garbled}},
        f \in BOOLEAN \X BOOLEAN \X BOOLEAN}

InitRT ==
    /\ redis_addr = "127.0.0.1:6379"
    /\ cache \in {<<>>, Google :> Stored(Google)}
    /\ ncalls = 0
    /\ last = NoCall
    /\ prev = NoCall
    /\ expired = FALSE
    /\ proc = NoProcs
    /\ log = <<>>
    /\ rt \in {RoundTrip("new", r) : r \in RTRecords}
    /\ ping = "PONG"

Store ==
    /\ rt.stage = "new"
    /\ LET add == add2RedisCache(rt.rec, cache, TRUE)
       IN  /\ cache' = add.store
           /\ rt' = [rt EXCEPT !.stage = "stored", !.key = add.key]
    /\ UNCHANGED <<redis_addr, ncalls, last, prev, expired, proc, log, ping>>

Load ==
    /\ rt.stage = "stored"
    /\ \E fresh \in {ZeroGeoIPData, [ZeroGeoIPData EXCEPT !.IP = rt.key],
                      NewGeoIPData(rt.key)} :
         LET chk == checkRedisCache(fresh, cache, rt.key, FALSE)
         IN  rt' = [rt EXCEPT !.stage = "read", !.fresh = fresh,
                              !.hit = chk.ret, !.out = chk.g]
    /\ UNCHANGED <<redis_addr, cache, ncalls, last, prev, expired, proc, log, ping>>

NextRT == Store \/ Load

SpecRT == InitRT /\ [][NextRT]_vars

(***************************************************************************)
(* The startup: the package variables before init has run, init, and the   *)
(* calls after it.  init reads REDIS_CONF, builds the client and pings the *)
(* backend; whether the backend answers then says nothing about whether    *)
(* it answers the later Get and Set.                                       *)
(***************************************************************************)
InitStart ==
    /\ redis_addr = ""
    /\ cache \in {<<>>, Google :> Stored(Google)}
    /\ ncalls = 0
    /\ last = NoCall
    /\ prev = NoCall
    /\ expired = FALSE
    /\ proc = NoProcs
    /\ log = <<>>
    /\ rt = NoRoundTrip
    /\ ping = ""

init ==
    /\ ping = ""
    /\ redis_addr' \in {"", "127.0.0.1:6379"}
    /\ ping' \in {"PONG", "failed"}
    /\ UNCHANGED <<cache, ncalls, last, prev, expired, proc, log, rt>>

CallStart ==
    /\ ping # ""
    /\ CallOf(SeqInputs, SeqRemotes, MaxCalls)

NextStart == init \/ CallStart \/ Expire

SpecStart == InitStart /\ [][NextStart]_vars

(***************************************************************************)
(* Vocabulary of the properties.                                           *)
(***************************************************************************)
\* the descriptive fields of a record
Desc(g) == <<g.ISP, g.Org, g.Hostname, g.City, g.CountryCode, g.CountryName>>

\* a cache address is configured
Configured == redis_addr # ""

\* the address, once completed, is under the local prefix "192.168.106."
LocalAddr(ip) ==
    LET a == Normalized(ip)
    IN  Len(a) >= 4 /\ a[1] = "192" /\ a[2] = "168" /\ a[3] = "106"

\* the address, once completed, is under "10.", "192.168." or "172.16." ..
\* "172.31."
PrivateAddr(ip) ==
    LET a == Normalized(ip)
    IN  \/ Len(a) >= 2 /\ a[1] = "10"
        \/ Len(a) >= 3 /\ a[1] = "192" /\ a[2] = "168"
        \/ Len(a) >= 3 /\ a[1] = "172" /\ a[2] \in SecondOctets

RoutableAddr(ip) == ~LocalAddr(ip) /\ ~PrivateAddr(ip)

\* the call c reached the service and got a 200 answer that left a country
\* code in the record
Resolved(c) ==
    /\ c.returned
    /\ c.remote = 1
    /\ c.resp.kind = "response"
    /\ c.resp.status = OK200
    /\ c.geo.CountryCode # "--"

\* the most recent two calls looked up the same string, the first on a cold
\* cache, with no expiry between them
SameTwice ==
    /\ ncalls >= 2
    /\ Configured
    /\ RoutableAddr(prev.input)
    /\ prev.cold
    /\ last.input = prev.input
    /\ ~last.afterExpiry

SharedEntry ==
    /\ ncalls >= 2
    /\ Configured
    /\ RoutableAddr(prev.input)
    /\ Normalized(prev.input) = Normalized(last.input)
    /\ prev.returned
    /\ prev.writes = 1 /\ prev.setOk
    /\ prev.geo.CountryCode # "--"
    /\ prev.geo.IP = Normalized(prev.input)
    /\ ~last.afterExpiry
    /\ ~last.getErr

C3_SameEntry ==
    SharedEntry
        => /\ last.readKey = prev.writeKey
           /\ last.returned
           /\ last.geo.CacheHit

(***************************************************************************)
(* C4.  A cache entry whose CountryCode is still the sentinel "--" is not  *)
(* returned as a cache hit: the remote resolver is invoked, and no record  *)
(* returned has CacheHit = TRUE together with CountryCode = "--".          *)
(***************************************************************************)
C4_NoSentinelHit ==
    /\ (ncalls >= 1 /\ last.reads = 1 /\ last.found /\ last.foundCC = "--")
           => /\ last.remote = 1
              /\ ~(last.returned /\ last.geo.CacheHit)
    /\ (ncalls >= 1 /\ last.returned)
           => ~(last.geo.CacheHit /\ last.geo.CountryCode = "--")

C4_Witness ==
    /\ ncalls >= 1
    /\ last.input = Google
    /\ last.reads = 1 /\ last.found /\ last.foundCC = "--"
    /\ last.remote = 1
    /\ last.returned
    /\ ~last.geo.CacheHit

(***************************************************************************)
(* C5.  As stated: for every address under the local prefix, whatever the  *)
(* cache holds and the service answers, the record returned is the local   *)
(* one (Located, not Routable) with Success = TRUE, the fields of the home *)
(* record and CacheHit = FALSE.                                            *)
(***************************************************************************)
HomeRecord(g) ==
    /\ g.Located /\ ~g.Routable
    /\ g.ISP = "LaughingJ"
    /\ g.City = "Lewisville"
    /\ g.CountryCode = "US"
    /\ g.CountryName = "United States"
    /\ ~g.CacheHit

C5_AsStated ==
    (ncalls >= 1 /\ LocalAddr(last.input))
        => /\ last.returned
           /\ HomeRecord(last.geo)
           /\ last.geo.Success

(***************************************************************************)
(* C5, amended: the same with Success = FALSE: isLocal does not set        *)
(* Success, which keeps the value GetGeoData starts from.                  *)
(***************************************************************************)
C5_Local ==
    (ncalls >= 1 /\ LocalAddr(last.input))
        => /\ last.returned
           /\ HomeRecord(last.geo)
           /\ ~last.geo.Success

C5_Witness ==
    /\ ncalls >= 1
    /\ Configured
    /\ last.input = Home
    /\ Home \in DOMAIN cache
    /\ last.geo.ISP = "LaughingJ"
    /\ ~last.geo.Success

C7_NoCacheNoRemote ==
    [][(/\ ncalls' = ncalls + 1
        /\ LocalAddr(last'.input) \/ PrivateAddr(last'.input))
          => /\ cache' = cache
             /\ last'.reads = 0
             /\ last'.writes = 0
             /\ last'.remote = 0]_vars

C7_Witness ==
    /\ ncalls >= 1
    /\ Configured
    /\ last.input = <<"172", "31", "5", "5">>
    /\ last.returned
    /\ last.reads = 0 /\ last.writes = 0 /\ last.remote = 0
    /\ Private \in DOMAIN cache

(***************************************************************************)
(* C8.  Any cache failure is soft.  A call whose cache read fails (the     *)
(* backend reports an error, or the value stored does not deserialize)     *)
(* does and returns exactly what it does on a cache miss, with the same    *)
(* answer of the service; a call whose cache write fails returns the       *)
(* record it returns when the write succeeds; a cache failure never keeps  *)
(* the call from returning.                                                *)
(***************************************************************************)
OnMiss(c) ==
    GetGeoData(c.input, redis_addr, <<>>, FALSE, c.resp, c.setOk)

CacheReadFailed(c) ==
    /\ c.reads = 1
    /\ ~c.found
    /\ c.getErr \/ c.readKey \in DOMAIN cache

C8_SoftFailure ==
    /\ (ncalls >= 1 /\ ~expired /\ CacheReadFailed(last))
           => /\ last.remote = 1
              /\ last.returned = OnMiss(last).returned
              /\ last.geo = OnMiss(last).geo
              /\ last.writes = OnMiss(last).writes
              /\ last.writeKey = OnMiss(last).writeKey
              /\ ~last.geo.CacheHit
    /\ (ncalls >= 1 /\ ~expired /\ last.writes = 1 /\ ~last.setOk)
           => /\ last.returned
              /\ last.geo = GetGeoData(last.input, redis_addr, cache,
                                       last.getErr, last.resp, TRUE).geo

(***************************************************************************)
(* C9.  When the remote call fails at transport level the call still       *)
(* returns a record, with the descriptive fields GetGeoData starts from    *)
(* and a non-empty Error.                                                  *)
(***************************************************************************)
C9_TransportFailure ==
    (/\ ncalls >= 1
     /\ last.remote = 1
     /\ last.resp.kind = "transport"
     /\ ~last.found)
        => /\ last.returned
           /\ Desc(last.geo) = Desc(NewGeoIPData(last.input))
           /\ last.geo.Error # NoError

(***************************************************************************)
(* C10.  When the service answers with a status other than 200 the         *)
(* resolver sets Error to a message with the address and the status, no    *)
(* member of the response body is stored in the record, and the record is  *)
(* not marked Located.                                                     *)
(***************************************************************************)
C10_Non200 ==
    (/\ ncalls >= 1
     /\ last.remote = 1
     /\ last.resp.kind = "response"
     /\ last.resp.status # OK200
     /\ last.returned
     /\ ~last.found)
        => /\ last.geo.Error
                = <<InvalidResponse>> \o last.req \o <<" - ", last.resp.status>>
           /\ Desc(last.geo) = Desc(NewGeoIPData(last.input))
           /\ ~last.geo.Located

(***************************************************************************)
(* C11.  The resolver marks the record Located only when the response body *)
(* was read and deserialized: after an error while the body is read, or a  *)
(* body that is not the JSON of a record, the record returned has          *)
(* Located = FALSE.                                                        *)
(***************************************************************************)
C11_LocatedAfterDeserialization ==
    (/\ ncalls >= 1
     /\ last.returned
     /\ last.remote = 1
     /\ last.resp.kind = "response"
     /\ \/ last.resp.readErr
        \/ RemoteBody(last.resp.body, last.req).bad # "none")
        => ~last.geo.Located

(***************************************************************************)
(* C12.  Every call is one pass through the pipeline: its steps are taken  *)
(* in the order CheckOctets, isLocal, isNonRoutable, checkRedisCache,      *)
(* obtainGeoDat, add2RedisCache, none of them twice, so it makes at most   *)
(* one cache read, one remote call and one cache write, in that order, and *)
(* nothing is retried after a cache miss or a remote error.  A call that   *)
(* returns ends as local, as non-routable, as a cache hit or with the      *)
(* cache written after the remote call; the only call that does not return *)
(* is the one that stops in obtainGeoDat on a body that is not gzip.       *)
(***************************************************************************)
Pipeline ==
    <<"CheckOctets", "isLocal", "isNonRoutable", "checkRedisCache",
      "obtainGeoDat", "add2RedisCache">>

Position(step) == CHOOSE i \in DOMAIN Pipeline : Pipeline[i] = step

Times(c, step) == Cardinality({i \in DOMAIN c.steps : c.steps[i] = step})

Ends(c, step) == c.steps[Len(c.steps)] = step

C13_OneClassification ==
    (ncalls >= 1 /\ last.returned /\ last.resp.body # "flags")
        => /\ ColorForIP(last.geo) = Blue <=> Ends(last, "isLocal")
           /\ ColorForIP(last.geo) = BrightMagenta <=> Ends(last, "isNonRoutable")
           /\ ColorForIP(last.geo) = Green <=> Ends(last, "checkRedisCache")
           /\ ColorForIP(last.geo) = Red <=> Ends(last, "add2RedisCache")
           /\ last.geo.CacheHit
                 => /\ last.geo.Routable
                    /\ ~HasPrefix(last.geo.IP, LocalPrefix)

(***************************************************************************)
(* C14.  For every input and every outcome the IP field of the record      *)
(* returned is the normalized input (the input, or the input with ".112"   *)
(* appended when it has exactly three parts): neither the cached value nor *)
(* the answer of the service changes it.                                   *)
(***************************************************************************)
C14_IPIsNormalized ==
    (ncalls >= 1 /\ last.returned)
        => last.geo.IP = Normalized(last.input)

(***************************************************************************)
(* Vocabulary of the properties of concurrent calls.                       *)
(***************************************************************************)
\* the positions in the log of the operations op of goroutine p
Ops(p, op) == {i \in DOMAIN log : log[i].proc = p /\ log[i].op = op}

\* the positions of the writes that stored a value under key k
Sets(k) ==
    {i \in DOMAIN log : log[i].op = "set" /\ log[i].key = k /\ log[i].ok}

Latest(S) == CHOOSE i \in S : \A j \in S : j <= i

\* the record goroutine p gets when it runs GetGeoData alone against the
\* store and the answers it met
Alone(p) ==
    GetGeoData(proc[p].input, redis_addr, proc[p].seen, proc[p].getErr,
               proc[p].resp, proc[p].setOk).geo

(***************************************************************************)
(* C15.  Under every interleaving of concurrent calls the entry under a    *)
(* key is at all times absent, the entry that was there before the calls,  *)
(* or the complete serialized record of one call, the one whose write to   *)
(* that key came last; and each call returns its own record, the one it    *)
(* returns when it runs alone against the store and the answers it met.    *)
(***************************************************************************)
C15_LastWriterWins ==
    /\ \A k \in DOMAIN cache :
          IF Sets(k) = {}
          THEN cache[k] = Stored(k)
          ELSE LET w == log[Latest(Sets(k))].proc
               IN  /\ proc[w].pc = "done"
                   /\ cache[k] = Marshal(proc[w].geo)
                   /\ cache[k].has = Fields
                   /\ cache[k].bad = "none"
    /\ \A p \in Procs : proc[p].pc = "done" => proc[p].geo = Alone(p)

C15_Witness ==
    /\ proc["g1"].pc = "done" /\ proc["g2"].pc = "done"
    /\ proc["g1"].input = Google /\ proc["g2"].input = Google
    /\ Len(log) = 6
    /\ log[1].op = "get" /\ log[2].op = "get"
    /\ log[5] = Event("g1", "set", Google, TRUE)
    /\ log[6] = Event("g2", "set", Google, TRUE)
    /\ proc["g1"].geo.ISP = "Google LLC"
    /\ proc["g2"].geo.ISP = "-----"
    /\ Google \in DOMAIN cache
    /\ cache[Google] = Marshal(proc["g2"].geo)

(***************************************************************************)
(* C16.  There is no single flight: when two concurrent calls for the same *)
(* cold routable address have both read the cache before either writes it, *)
(* both have missed, neither returns without a remote call of its own, and *)
(* each that returns has written the entry.                                *)
(***************************************************************************)
BothReadFirst(p, q) ==
    /\ p # q
    /\ Configured
    /\ proc[p].input = proc[q].input
    /\ RoutableAddr(proc[p].input)
    /\ Ops(p, "get") # {} /\ Ops(q, "get") # {}
    /\ proc[p].input \notin DOMAIN proc[p].seen
    /\ proc[q].input \notin DOMAIN proc[q].seen
    /\ \A i \in Ops(p, "get") \cup Ops(q, "get") :
          \A j \in Ops(p, "set") \cup Ops(q, "set") : i < j

C16_NoSingleFlight ==
    \A p, q \in Procs :
        BothReadFirst(p, q)
            => \A x \in {p, q} :
                  /\ \A i \in Ops(x, "get") : ~log[i].ok
                  /\ proc[x].pc \in {"resolve", "write", "panic", "done"}
                  /\ proc[x].pc \in {"write", "panic", "done"}
                        => Cardinality(Ops(x, "request")) = 1
                  /\ proc[x].pc = "done"
                        => /\ Cardinality(Ops(x, "set")) = 1
                           /\ \A i \in Ops(x, "set") : log[i].key = proc[x].geo.IP
                           /\ ~proc[x].geo.CacheHit

C16_Witness ==
    /\ BothReadFirst("g1", "g2")
    /\ proc["g1"].pc = "done" /\ proc["g2"].pc = "done"
    /\ Len(log) = 6
    /\ log[1].op = "get" /\ log[2].op = "get"
    /\ log[3].op = "request" /\ log[4].op = "request"
    /\ log[3].proc # log[4].proc
    /\ log[5].op = "set" /\ log[6].op = "set"
    /\ log[5].proc # log[6].proc

(***************************************************************************)
(* C17.  As stated: for every record, storing it with add2RedisCache and   *)
(* reading the same key with checkRedisCache into a fresh record returns   *)
(* hit = TRUE and a record equal to the stored one on IP, ISP, Org,        *)
(* Hostname, City, CountryCode, CountryName, Success and Error, with       *)
(* CacheHit = TRUE.                                                        *)
(***************************************************************************)
RoundTripped ==
    /\ rt.hit
    /\ \A f \in AnswerFields : rt.out[f] = rt.rec[f]
    /\ rt.out.CacheHit

C17_AsStated == rt.stage = "read" => RoundTripped

(***************************************************************************)
(* C17, amended: the same for every record whose string fields are valid   *)
(* UTF-8.                                                                  *)
(***************************************************************************)
ValidUTF8(g) == Coerced(g) = g

C17_RoundTrip == (rt.stage = "read" /\ ValidUTF8(rt.rec)) => RoundTripped

C17_Witness ==
    /\ rt.stage = "read"
    /\ rt.rec.IP = Private
    /\ rt.rec.Error = <<InvalidPublic>> \o Private
    /\ rt.rec.Success /\ rt.rec.Block
    /\ rt.fresh = ZeroGeoIPData
    /\ rt.hit
    /\ rt.out.Error = rt.rec.Error
    /\ rt.out.CacheHit

(***************************************************************************)
(* C18.  For 192.168.1.1, and for any non-routable address, the call       *)
(* returns ISP = "-----" and an Error that is exactly the string           *)
(* "Invalid public IPv4 or IPv6 address".                                  *)
(***************************************************************************)
C18_ExactError ==
    (ncalls >= 1 /\ PrivateAddr(last.input) /\ ~LocalAddr(last.input))
        => /\ last.returned
           /\ last.geo.ISP = "-----"
           /\ last.geo.Error = <<"Invalid public IPv4 or IPv6 address">>

(***************************************************************************)
(* C19.  When the cache backend does not answer at startup, construction   *)
(* fails fast: no lookup is served after a startup whose connectivity      *)
(* check failed.                                                           *)
(***************************************************************************)
C19_FailFast == ping = "failed" => ncalls = 0

(***************************************************************************)
(* C20.  The local check comes before the non-routable check, after the    *)
(* octets are completed: for every input whose completed form is under     *)
(* "192.168.106." (the three-part input 192.168.106 included) the call     *)
(* returns from isLocal, isNonRoutable is not evaluated, Error stays       *)
(* empty, and the record carries the fields of the home record.            *)
(***************************************************************************)
C20_LocalFirst ==
    (ncalls >= 1 /\ LocalAddr(last.input))
        => /\ last.returned
           /\ last.steps = <<"CheckOctets", "isLocal">>
           /\ Times(last, "isNonRoutable") = 0
           /\ last.geo.Error = NoError
           /\ HomeRecord(last.geo)

C20_Witness ==
    /\ ncalls >= 1
    /\ last.input = <<"192", "168", "106">>
    /\ last.geo.IP = <<"192", "168", "106", "112">>
    /\ last.steps = <<"CheckOctets", "isLocal">>
    /\ last.geo.Error = NoError
    /\ last.geo.ISP = "LaughingJ"
    /\ last.geo.Located

(***************************************************************************)
(* C21.  Every call that reaches the remote resolver (after a cache miss,  *)
(* after a hit on a sentinel entry, or with no cache configured) makes     *)
(* exactly one cache write afterwards, whatever the outcome of the         *)
(* resolver.                                                               *)
(***************************************************************************)
C21_WriteAfterResolver ==
    (ncalls >= 1 /\ last.remote = 1)
        => /\ last.writes = 1
           /\ Ends(last, "add2RedisCache")

(***************************************************************************)
(* C22.  Within one call on the miss path the key the record is written    *)
(* under is the key the call read, for every input and every answer of the *)
(* service.                                                                *)
(***************************************************************************)
C22_SameKey ==
    (ncalls >= 1 /\ last.reads = 1 /\ last.writes = 1)
        => last.writeKey = last.readKey

====
